---------------------------- MODULE Spec2Model ----------------------------
(***************************************************************************)
(* A model of the mind-map to Markdown conversion engine                   *)
(* (src/mindmap_to_md.py).                                                 *)
(*                                                                         *)
(* Representation.                                                         *)
(*   - A Python str is a sequence of one-character strings, so that        *)
(*     strip(), join() and the f-strings are computed, not assumed.        *)
(*   - Optional[T] is a tuple of length 0 (None) or 1 (the value).         *)
(*   - A float is a record [kind, num]: kind "fin" carries the integer     *)
(*     num; "nan", "inf" and "ninf" are the IEEE specials.  Cluster        *)
(*     centers are exact rationals [sum, count] (the code keeps the        *)
(*     incremental mean in a double).                                      *)
(*   - A topic element is a record of its Text child, its Offset child     *)
(*     and its four child containers.                                      *)
(***************************************************************************)
EXTENDS Integers, Sequences, FiniteSets, TLC

VARIABLES
    pc,       \* position of the call under study: "start", then "done"
    file,     \* the file at file_path handed to extract_markdown_lines
    result,   \* what the call returned or raised
    topic,    \* the topic element handed to an accessor
    topics,   \* the topic list handed to looks_like_board_layout
    values    \* the value list handed to _cluster_indices

vars == <<pc, file, result, topic, topics, values>>

-----------------------------------------------------------------------------
(* Optional values and Python truthiness *)

None == <<>>

Some(v) == <<v>>

\* `if x:` for an Optional[str] or Optional[list]: None and the empty value are falsy
Truthy(opt) == opt # None /\ opt[1] # <<>>

\* The element of a one-element set.  The({body : v \in {x}}) reads "body where
\* v = x": a local variable v, its value x computed once.
The(S) == CHOOSE r \in S : TRUE

NoTopic == [Text |-> None, Offset |-> None, SubTopics |-> <<>>,
            LeftTopicGroup |-> <<>>, RightTopicGroup |-> <<>>,
            FloatingTopics |-> <<>>]

NoFile == [exists |-> FALSE, ext |-> "", is_zip |-> FALSE,
           has_document_xml |-> FALSE, well_formed |-> FALSE, root |-> None]

NoResult == [kind |-> "none"]

-----------------------------------------------------------------------------
(* Strings *)

IsSpace(c) == c \in {" ", "\n", "\t"}

RECURSIVE LStrip(_)
LStrip(s) ==
    IF s = <<>> THEN <<>>
    ELSE IF IsSpace(Head(s)) THEN LStrip(Tail(s)) ELSE s

RECURSIVE RStrip(_)
RStrip(s) ==
    IF s = <<>> THEN <<>>
    ELSE IF IsSpace(s[Len(s)]) THEN RStrip(SubSeq(s, 1, Len(s) - 1)) ELSE s

\* str.strip()
Strip(s) == RStrip(LStrip(s))

\* sep.join(parts)
RECURSIVE Join(_, _)
Join(sep, parts) ==
    IF parts = <<>> THEN <<>>
    ELSE IF Len(parts) = 1 THEN parts[1]
    ELSE parts[1] \o sep \o Join(sep, Tail(parts))

\* c * n
RECURSIVE Repeat(_, _)
Repeat(c, n) == IF n <= 0 THEN <<>> ELSE <<c>> \o Repeat(c, n - 1)

Max(a, b) == IF a >= b THEN a ELSE b

-----------------------------------------------------------------------------
(* get_topic_text *)

\* lines 31-33: the stripped text of every nested Text fragment that has any
RECURSIVE InnerPieces(_)
InnerPieces(inner) ==
    IF inner = <<>> THEN <<>>
    ELSE LET t == Head(inner)
         IN  (IF t # None /\ t[1] # <<>> /\ Strip(t[1]) # <<>>
              THEN <<Strip(t[1])>> ELSE <<>>) \o InnerPieces(Tail(inner))

\* lines 29-35: one paragraph's pieces, falling back to the paragraph's own text
ParagraphPieces(paragraph) ==
    LET pieces == InnerPieces(paragraph.inner)
    IN  IF pieces = <<>> /\ paragraph.text # None
           /\ paragraph.text[1] # <<>> /\ Strip(paragraph.text[1]) # <<>>
        THEN <<Strip(paragraph.text[1])>>
        ELSE pieces

\* lines 27-37: one space-joined string per paragraph that yielded pieces
RECURSIVE ParagraphTexts(_)
ParagraphTexts(ps) ==
    IF ps = <<>> THEN <<>>
    ELSE LET pieces == ParagraphPieces(Head(ps))
         IN  (IF pieces # <<>> THEN <<Join(<<" ">>, pieces)>> ELSE <<>>)
             \o ParagraphTexts(Tail(ps))

GetTopicText(t) ==
    IF t.Text = None THEN None
    ELSE LET text_node  == t.Text[1]
             plain_attr == text_node.PlainText
             plain_elem == text_node.PlainTextElem
             paragraphs == ParagraphTexts(text_node.Paragraph)
         IN  IF Truthy(plain_attr) THEN Some(Strip(plain_attr[1]))
             ELSE IF Truthy(plain_elem) THEN Some(Strip(plain_elem[1]))
             ELSE IF paragraphs # <<>> THEN Some(Join(<<"\n">>, paragraphs))
             ELSE IF Truthy(text_node.text) /\ Strip(text_node.text[1]) # <<>>
                  THEN Some(Strip(text_node.text[1]))
             ELSE None

-----------------------------------------------------------------------------
(* Inputs of get_topic_text: every encoding of a Text element, each slot   *)
(* with its own letter so that the producing step shows in the result.     *)

MaxParagraphs == 2

AttrValues == {None, Some(<<>>), Some(<<" ">>), Some(<<" ", "a", " ">>)}

ElemValues == {None, Some(<<" ">>), Some(<<"b", " ">>)}

InnerValues == {<<>>, <<Some(<<" ">>)>>, <<Some(<<" ", "c">>)>>,
                <<Some(<<"c", " ">>), Some(<<"d">>)>>}

ParagraphOwnValues == {None, Some(<<" ">>), Some(<<" ", "e">>)}

OwnValues == {None, Some(<<"\n", " ">>), Some(<<"\n", "f", " ">>)}

ParagraphElems == [inner : InnerValues, text : ParagraphOwnValues]

SeqsUpTo(S, n) == UNION {[1..k -> S] : k \in 0..n}

TextNodes ==
    [PlainText : AttrValues, PlainTextElem : ElemValues,
     Paragraph : SeqsUpTo(ParagraphElems, MaxParagraphs), text : OwnValues]

TopicWithText(opt_text_node) == [NoTopic EXCEPT !.Text = opt_text_node]

TextTopics == {TopicWithText(None)} \cup {TopicWithText(Some(n)) : n \in TextNodes}

InitText ==
    /\ pc = "start"
    /\ topic \in TextTopics
    /\ result = NoResult
    /\ file = NoFile
    /\ topics = <<>>
    /\ values = <<>>

CallGetTopicText ==
    /\ pc = "start"
    /\ result' = [kind |-> "returned", value |-> GetTopicText(topic)]
    /\ pc' = "done"
    /\ UNCHANGED <<file, topic, topics, values>>

SpecText == InitText /\ [][CallGetTopicText]_vars

-----------------------------------------------------------------------------
(* Floats *)

Fin(n) == [kind |-> "fin", num |-> n]

NaN == [kind |-> "nan", num |-> 0]

PosInf == [kind |-> "inf", num |-> 0]

NegInf == [kind |-> "ninf", num |-> 0]

\* a < b on floats (no NaN operand ever reaches a comparison by order)
FLess(a, b) ==
    CASE a.kind = "fin" /\ b.kind = "fin" -> a.num < b.num
      [] a.kind = "ninf" -> b.kind \in {"fin", "inf"}
      [] a.kind = "fin" -> b.kind = "inf"
      [] OTHER -> FALSE

-----------------------------------------------------------------------------
(* get_topic_position *)

\* The literal of a CX / CY attribute: a decimal number, or one of the words
\* float() accepts ("nan", "inf", "-inf"), or text it rejects.
NumLit(n) == [lit |-> "num", num |-> n]

WordLit(w) == [lit |-> w, num |-> 0]

\* float(s): the value, or "ValueError"
ParseFloat(s) ==
    CASE s.lit = "num"  -> Fin(s.num)
      [] s.lit = "nan"  -> NaN
      [] s.lit = "inf"  -> PosInf
      [] s.lit = "-inf" -> NegInf
      [] OTHER          -> [kind |-> "ValueError", num |-> 0]

GetTopicPosition(t) ==
    IF t.Offset = None THEN None
    ELSE LET offset == t.Offset[1]
             \* offset.get("CX", "nan")
             cx == ParseFloat(IF offset.CX = None THEN WordLit("nan") ELSE offset.CX[1])
             cy == ParseFloat(IF offset.CY = None THEN WordLit("nan") ELSE offset.CY[1])
         IN  IF cx.kind = "ValueError" \/ cy.kind = "ValueError" THEN None
             \* value != value holds of NaN alone
             ELSE IF cx.kind = "nan" \/ cy.kind = "nan" THEN None
             ELSE Some(<<cx, cy>>)

CoordNums == {0, 30, 100}

CoordAttrs ==
    {None} \cup {Some(NumLit(n)) : n \in CoordNums}
           \cup {Some(WordLit(w)) : w \in {"nan", "inf", "-inf", "abc"}}

OffsetElems == [CX : CoordAttrs, CY : CoordAttrs]

TopicWithOffset(opt_offset) == [NoTopic EXCEPT !.Offset = opt_offset]

PositionTopics ==
    {TopicWithOffset(None)} \cup {TopicWithOffset(Some(o)) : o \in OffsetElems}

InitPosition ==
    /\ pc = "start"
    /\ topic \in PositionTopics
    /\ result = NoResult
    /\ file = NoFile
    /\ topics = <<>>
    /\ values = <<>>

CallGetTopicPosition ==
    /\ pc = "start"
    /\ result' = [kind |-> "returned", value |-> GetTopicPosition(topic)]
    /\ pc' = "done"
    /\ UNCHANGED <<file, topic, topics, values>>

SpecPosition == InitPosition /\ [][CallGetTopicPosition]_vars

-----------------------------------------------------------------------------
(* _cluster_indices *)

Tolerance == 25

\* sorted(enumerate(values), key=value): the indices, ascending by value,
\* equal values in index order (the sort is stable).  Indices are 1-based.
RECURSIVE InsertByValue(_, _, _)
InsertByValue(sorted, i, vals) ==
    IF sorted = <<>> THEN <<i>>
    ELSE IF FLess(vals[i], vals[Head(sorted)]) THEN <<i>> \o sorted
    ELSE <<Head(sorted)>> \o InsertByValue(Tail(sorted), i, vals)

RECURSIVE SortPrefix(_, _)
SortPrefix(vals, n) ==
    IF n = 0 THEN <<>> ELSE InsertByValue(SortPrefix(vals, n - 1), n, vals)

\* mutant: the items are walked in input order, unsorted
UnsortedItems(vals) == [i \in 1..Len(vals) |-> i]

SortedItems(vals) == SortPrefix(vals, Len(vals))

\* A cluster's center: the exact mean sum / count, or an IEEE special.
CenterOf(value) == [kind |-> value.kind, sum |-> value.num, count |-> 1]

\* mutant: the running sum is compared, the division by the count forgotten
ExceedsSum(value, center, tolerance) ==
    CASE value.kind = "fin" /\ center.kind = "fin" ->
             value.num - center.sum > tolerance
      [] center.kind = "nan" -> FALSE
      [] value.kind = "fin" -> center.kind = "ninf"
      [] value.kind = "inf" -> center.kind # "inf"
      [] OTHER -> FALSE

\* value - center > tolerance
ExceedsCenter(value, center, tolerance) ==
    CASE value.kind = "fin" /\ center.kind = "fin" ->
             value.num * center.count - center.sum > tolerance * center.count
      [] center.kind = "nan" -> FALSE
      [] value.kind = "fin" -> center.kind = "ninf"
      [] value.kind = "inf" -> center.kind # "inf"
      [] OTHER -> FALSE

\* (center * (len(members) - 1) + value) / len(members)
AbsorbInto(center, value) ==
    LET kind == CASE center.kind = "fin" -> value.kind
                  [] value.kind \in {"fin", center.kind} -> center.kind
                  [] OTHER -> "nan"
    IN  IF kind = "fin"
        THEN [kind |-> "fin", sum |-> center.sum + value.num, count |-> center.count + 1]
        ELSE [kind |-> kind, sum |-> 0, count |-> center.count + 1]

\* lines 104-114: the walk over sorted_items
RECURSIVE WalkItems(_, _, _, _)
WalkItems(items, vals, clusters, tolerance) ==
    IF items = <<>> THEN clusters
    ELSE LET index == Head(items)
             value == vals[index]
             n     == Len(clusters)
         IN  The({ WalkItems(Tail(items), vals, walked, tolerance)
                 : walked \in {
                     IF n = 0 \/ ExceedsCenter(value, clusters[n].center, tolerance)
                     THEN Append(clusters,
                              [center |-> CenterOf(value), members |-> <<index>>])
                     ELSE [clusters EXCEPT ![n] =
                              [center |-> AbsorbInto(clusters[n].center, value),
                               members |-> Append(clusters[n].members, index)]]} })

InSeq(x, s) == \E k \in 1..Len(s) : s[k] = x

\* Cluster ids are 1-based positions in centers.
ClusterIndices(vals, tolerance) ==
    IF vals = <<>> THEN None
    ELSE The({ Some([centers |-> [c \in 1..Len(clusters) |-> clusters[c].center],
                     mapping |-> [i \in 1..Len(vals) |->
                         CHOOSE c \in 1..Len(clusters) : InSeq(i, clusters[c].members)]])
             : clusters \in {WalkItems(SortedItems(vals), vals, <<>>, tolerance)} })

MaxValues == 3

ClusterValues == {Fin(0), Fin(25), Fin(37), Fin(60), Fin(100), PosInf, NegInf}

InitCluster ==
    /\ pc = "start"
    /\ values \in SeqsUpTo(ClusterValues, MaxValues)
    /\ result = NoResult
    /\ file = NoFile
    /\ topic = NoTopic
    /\ topics = <<>>

CallClusterIndices ==
    /\ pc = "start"
    /\ result' = [kind |-> "returned", value |-> ClusterIndices(values, Tolerance)]
    /\ pc' = "done"
    /\ UNCHANGED <<file, topic, topics, values>>

SpecCluster == InitCluster /\ [][CallClusterIndices]_vars

-----------------------------------------------------------------------------
(* Topic tree accessors and the outline renderer *)

\* mutant: the left group is walked before the primary subtopics
IterChildTopicsLeftFirst(t) ==
    t.LeftTopicGroup \o t.SubTopics \o t.RightTopicGroup \o t.FloatingTopics

\* The four containers in canonical order, each in document order.
IterChildTopics(t) ==
    t.SubTopics \o t.LeftTopicGroup \o t.RightTopicGroup \o t.FloatingTopics

\* walk_topic, returning the lines it appends to md_lines
RECURSIVE WalkTopic(_, _)
RECURSIVE WalkTopics(_, _)
\* mutant: the children are walked at the parent's level
WalkTopicSameLevel(t, level) ==
    LET text == GetTopicText(t)
    IN  (IF Truthy(text)
         THEN <<Repeat("#", Max(level, 1)) \o <<" ">> \o text[1]>>
         ELSE <<>>)
        \o WalkTopics(IterChildTopics(t), level)

\* mutant: `if text is not None` in place of `if text`
WalkTopicNotNone(t, level) ==
    LET text == GetTopicText(t)
    IN  (IF text # None
         THEN <<Repeat("#", Max(level, 1)) \o <<" ">> \o text[1]>>
         ELSE <<>>)
        \o WalkTopics(IterChildTopics(t), level + 1)

WalkTopic(t, level) ==
    LET text == GetTopicText(t)
    IN  (IF Truthy(text)
         THEN <<Repeat("#", Max(level, 1)) \o <<" ">> \o text[1]>>
         ELSE <<>>)
        \o WalkTopics(IterChildTopics(t), level + 1)

WalkTopics(ts, level) ==
    IF ts = <<>> THEN <<>>
    ELSE WalkTopic(Head(ts), level) \o WalkTopics(Tail(ts), level)

RECURSIVE TruthyTexts(_)
TruthyTexts(ts) ==
    IF ts = <<>> THEN <<>>
    ELSE LET text == GetTopicText(Head(ts))
         IN  (IF Truthy(text) THEN <<text[1]>> ELSE <<>>) \o TruthyTexts(Tail(ts))

GatherImmediateChildText(t) == TruthyTexts(IterChildTopics(t))

-----------------------------------------------------------------------------
(* render_canvas_table *)

RECURSIVE SumSeq(_)
SumSeq(s) == IF s = <<>> THEN 0 ELSE Head(s) + SumSeq(Tail(s))

Range(n) == [i \in 1..n |-> i]

Digit(d) == <<"0", "1", "2", "3", "4", "5", "6", "7", "8", "9">>[d + 1]

\* str(n) for n >= 0
RECURSIVE IntToStr(_)
IntToStr(n) == IF n < 10 THEN <<Digit(n)>> ELSE IntToStr(n \div 10) \o <<Digit(n % 10)>>

\* a.center < b.center on exact means
CenterLess(a, b) ==
    CASE a.kind = "fin" /\ b.kind = "fin" -> a.sum * b.count < b.sum * a.count
      [] a.kind = "ninf" -> b.kind \in {"fin", "inf"}
      [] a.kind = "fin" -> b.kind = "inf"
      [] OTHER -> FALSE

\* sorted(range(n), key=lambda i: centers[i])
RECURSIVE InsertByCenter(_, _, _)
InsertByCenter(sorted, i, centers) ==
    IF sorted = <<>> THEN <<i>>
    ELSE IF CenterLess(centers[i], centers[Head(sorted)]) THEN <<i>> \o sorted
    ELSE <<Head(sorted)>> \o InsertByCenter(Tail(sorted), i, centers)

RECURSIVE OrderPrefix(_, _)
OrderPrefix(centers, n) ==
    IF n = 0 THEN <<>> ELSE InsertByCenter(OrderPrefix(centers, n - 1), n, centers)

OrderByCenter(centers) == OrderPrefix(centers, Len(centers))

\* lines 128-136
ValidTopics(tops) ==
    SelectSeq(tops, LAMBDA t : Truthy(GetTopicText(t)) /\ GetTopicPosition(t) # None)

\* lines 176-192: the summary of one cell
CellSummary(topics_in_cell) ==
    The({ [entries       |-> entries,
           heading_count |-> Cardinality({k \in 1..Len(entries) : Truthy(entries[k].heading)}),
           child_count   |-> SumSeq([k \in 1..Len(entries) |-> Len(entries[k].children)])]
        : entries \in {[k \in 1..Len(topics_in_cell) |->
                           [heading  |-> GetTopicText(topics_in_cell[k]),
                            children |-> GatherImmediateChildText(topics_in_cell[k])]]} })

\* lines 158-194: table[row][col] summarised, rows and columns by cluster id
CellData(valid_topics, row_map, col_map, n_rows, n_cols) ==
    [r \in 1..n_rows |-> [c \in 1..n_cols |->
        The({ CellSummary(topics_in_cell)
            : topics_in_cell \in {
                LET members == SelectSeq(Range(Len(valid_topics)),
                                   LAMBDA i : row_map[i] = r /\ col_map[i] = c)
                IN  [k \in 1..Len(members) |-> valid_topics[members[k]]]} })]]

RECURSIVE ExtractFirstHeading(_)
ExtractFirstHeading(entries) ==
    IF entries = <<>> THEN None
    ELSE IF Truthy(Head(entries).heading) THEN Head(entries).heading
    ELSE ExtractFirstHeading(Tail(entries))

\* is_header_row with the child bound exclusive (child_total < 2 * heading_cells)
IsHeaderRowExclusive(cell_data, col_order, row_idx) ==
    LET cells == [k \in 1..Len(col_order) |-> cell_data[row_idx][col_order[k]]]
        heading_cells == Cardinality({k \in 1..Len(cells) : cells[k].heading_count > 0})
        child_total == SumSeq([k \in 1..Len(cells) |-> cells[k].child_count])
    IN  IF heading_cells < Max(2, Len(cells) \div 2) THEN FALSE
        ELSE child_total < heading_cells * 2

IsHeaderRow(cell_data, col_order, row_idx) ==
    LET cells == [k \in 1..Len(col_order) |-> cell_data[row_idx][col_order[k]]]
        heading_cells == Cardinality({k \in 1..Len(cells) : cells[k].heading_count > 0})
        total_cells == Len(cells)
        child_total == SumSeq([k \in 1..Len(cells) |-> cells[k].child_count])
    IN  IF heading_cells < Max(2, total_cells \div 2) THEN FALSE
        ELSE child_total <= heading_cells * 2

IsHeaderColumn(cell_data, row_order, col_idx, skip_row) ==
    LET rows == SelectSeq(row_order,
                    LAMBDA r : ~(skip_row # None /\ r = skip_row[1])
                               /\ cell_data[r][col_idx].entries # <<>>)
        relevant_cells == [k \in 1..Len(rows) |-> cell_data[rows[k]][col_idx]]
        heading_cells == Cardinality({k \in 1..Len(relevant_cells) :
                                         relevant_cells[k].heading_count > 0})
        child_total == SumSeq([k \in 1..Len(relevant_cells) |-> relevant_cells[k].child_count])
    IN  IF Len(relevant_cells) < 2 THEN FALSE
        ELSE IF heading_cells < Max(1, Len(relevant_cells) - 1) THEN FALSE
        ELSE child_total <= heading_cells

\* the one character U+2014 (the module is ASCII)
EmDash == <<"U+2014">>

Br == <<"<", "b", "r", ">">>

RECURSIVE EntryLines(_)
EntryLines(entries) ==
    IF entries = <<>> THEN <<>>
    ELSE LET e == Head(entries)
             n == Len(e.children)
         IN  (IF Truthy(e.heading)
              THEN <<<<"-", " ">> \o e.heading[1]>>
                   \o [k \in 1..n |-> <<" ", " ", "-", " ">> \o e.children[k]]
              ELSE [k \in 1..n |-> <<"-", " ">> \o e.children[k]])
             \o EntryLines(Tail(entries))

FormatEntries(entries) ==
    IF entries = <<>> THEN EmDash
    ELSE The({ IF lines # <<>> THEN Join(Br, lines) ELSE EmDash
             : lines \in {EntryLines(entries)} })

ColumnLabel(n) == <<"C", "o", "l", "u", "m", "n", " ">> \o IntToStr(n)

RowLabel(n) == <<"R", "o", "w", " ">> \o IntToStr(n)

\* "| " + " | ".join(cells) + " |"
PipeRow(cells) == <<"|", " ">> \o Join(<<" ", "|", " ">>, cells) \o <<" ", "|">>

\* lines 227-246: the header decisions and the body rows and columns
TableLayout(cell_data, row_order, col_order) ==
    LET header_row_idx == row_order[1]
        header_col_idx == col_order[1]
    IN  The({ The({
            LET kept_rows == SelectSeq(row_order,
                                 LAMBDA idx : ~(use_column_headers /\ idx = header_row_idx))
                kept_cols == IF header_column
                             THEN SelectSeq(col_order, LAMBDA idx : idx # header_col_idx)
                             ELSE col_order
            IN  [header_row_idx     |-> header_row_idx,
                 header_col_idx     |-> header_col_idx,
                 use_column_headers |-> use_column_headers,
                 use_row_headers    |-> header_column /\ kept_cols # <<>>,
                 body_rows          |-> IF kept_rows = <<>> THEN row_order ELSE kept_rows,
                 body_cols          |-> IF kept_cols = <<>> THEN col_order ELSE kept_cols]
            : header_column \in {
                IsHeaderColumn(cell_data, row_order, header_col_idx,
                    IF use_column_headers THEN Some(header_row_idx) ELSE None)} })
            : use_column_headers \in {IsHeaderRow(cell_data, col_order, header_row_idx)} })

\* lines 248-301
TableLines(central_title, cell_data, layout) ==
    LET body_rows == layout.body_rows
        body_cols == layout.body_cols
        column_headers ==
            [k \in 1..Len(body_cols) |->
                IF layout.use_column_headers
                THEN LET heading == ExtractFirstHeading(
                             cell_data[layout.header_row_idx][body_cols[k]].entries)
                     IN  IF Truthy(heading) THEN heading[1] ELSE ColumnLabel(k)
                ELSE ColumnLabel(k)]
        row_label(seq) ==
            LET heading == ExtractFirstHeading(
                    cell_data[body_rows[seq]][layout.header_col_idx].entries)
            IN  IF Truthy(heading) THEN heading[1] ELSE RowLabel(seq)
        body_line(seq) ==
            PipeRow((IF layout.use_row_headers THEN <<row_label(seq)>> ELSE <<>>)
                    \o [k \in 1..Len(body_cols) |->
                           FormatEntries(cell_data[body_rows[seq]][body_cols[k]].entries)])
    IN  The({ IF Len(lines) > 2 THEN Some(lines) ELSE None
            : lines \in {
                The({ (IF Truthy(central_title)
                       THEN <<<<"#", " ">> \o central_title[1]>> ELSE <<>>)
                      \o <<PipeRow(header_cells),
                           PipeRow([k \in 1..Len(header_cells) |-> <<"-", "-", "-">>])>>
                      \o [seq \in 1..Len(body_rows) |-> body_line(seq)]
                    : header_cells \in {
                        (IF layout.use_row_headers THEN <<<<" ">>>> ELSE <<>>)
                        \o column_headers} })} })

\* lines 154-301, from the two clusterings on
TableOf(central_title, valid_topics, col_cluster, row_cluster) ==
    IF col_cluster = None \/ row_cluster = None THEN None
    ELSE LET n_cols == Len(col_cluster[1].centers)
             n_rows == Len(row_cluster[1].centers)
         IN  IF n_cols < 2 \/ n_rows < 2 THEN None
             ELSE The({ The({ TableLines(central_title, cell_data, layout)
                            : layout \in {TableLayout(cell_data, row_order, col_order)} })
                      : cell_data \in {CellData(valid_topics, row_cluster[1].mapping,
                                                col_cluster[1].mapping, n_rows, n_cols)},
                        row_order \in {OrderByCenter(row_cluster[1].centers)},
                        col_order \in {OrderByCenter(col_cluster[1].centers)} })

RenderCanvasTable(central_title, tops) ==
    The({ IF Len(valid_topics) < 2 THEN None
          ELSE The({ TableOf(central_title, valid_topics, col_cluster, row_cluster)
                   : col_cluster \in {ClusterIndices(
                         [i \in 1..Len(valid_topics) |->
                             GetTopicPosition(valid_topics[i])[1][1]], Tolerance)},
                     row_cluster \in {ClusterIndices(
                         [i \in 1..Len(valid_topics) |->
                             GetTopicPosition(valid_topics[i])[1][2]], Tolerance)} })
        : valid_topics \in {ValidTopics(tops)} })

-----------------------------------------------------------------------------
(* looks_like_board_layout, sort_topics_by_position, render_board_sections *)

LooksLikeBoardLayout(tops) ==
    LET n == Len(tops)
        positioned == Cardinality({i \in 1..n : GetTopicPosition(tops[i]) # None})
        child_counts == Cardinality({i \in 1..n : GatherImmediateChildText(tops[i]) # <<>>})
    IN  IF n < 4 THEN FALSE
        ELSE The({
                LET unique_names == {names[i][1] : i \in {j \in 1..n : Truthy(names[j])}}
                IN  IF \E i \in 1..n : ~Truthy(names[i]) THEN FALSE
                    ELSE IF Cardinality(unique_names) < Max(3, n - 1) THEN FALSE
                    ELSE IF positioned < n \div 2 THEN FALSE
                    ELSE child_counts >= n \div 2
                : names \in {[i \in 1..n |-> GetTopicText(tops[i])]} })

\* (x, y, index) < (x, y, index), as Python orders tuples
PlacedLess(tops, i, j) ==
    LET a == GetTopicPosition(tops[i])[1]
        b == GetTopicPosition(tops[j])[1]
    IN  \/ FLess(a[1], b[1])
        \/ a[1] = b[1] /\ FLess(a[2], b[2])
        \/ a[1] = b[1] /\ a[2] = b[2] /\ i < j

RECURSIVE InsertPlaced(_, _, _)
InsertPlaced(sorted, i, tops) ==
    IF sorted = <<>> THEN <<i>>
    ELSE IF PlacedLess(tops, i, Head(sorted)) THEN <<i>> \o sorted
    ELSE <<Head(sorted)>> \o InsertPlaced(Tail(sorted), i, tops)

RECURSIVE SortPlaced(_, _)
SortPlaced(placed, tops) ==
    IF placed = <<>> THEN <<>>
    ELSE InsertPlaced(SortPlaced(SubSeq(placed, 1, Len(placed) - 1), tops),
                      placed[Len(placed)], tops)

SortTopicsByPosition(tops) ==
    LET placed   == SelectSeq(Range(Len(tops)), LAMBDA i : GetTopicPosition(tops[i]) # None)
        unplaced == SelectSeq(Range(Len(tops)), LAMBDA i : GetTopicPosition(tops[i]) = None)
    IN  The({ [k \in 1..Len(order) |-> tops[order[k]]]
            : order \in {SortPlaced(placed, tops) \o unplaced} })

RECURSIVE SectionLines(_)
SectionLines(ordered_topics) ==
    IF ordered_topics = <<>> THEN <<>>
    ELSE LET heading  == GetTopicText(Head(ordered_topics))
             children == GatherImmediateChildText(Head(ordered_topics))
         IN  (IF ~Truthy(heading) THEN <<>>
              ELSE <<<<"#", "#", " ">> \o heading[1]>>
                   \o [k \in 1..Len(children) |-> <<"-", " ">> \o children[k]]
                   \o <<<<>>>>)
             \o SectionLines(Tail(ordered_topics))

RenderBoardSections(central_title, tops) ==
    The({ IF lines # <<>> /\ lines[Len(lines)] = <<>>
          THEN SubSeq(lines, 1, Len(lines) - 1)
          ELSE lines
        : lines \in {
            (IF Truthy(central_title) THEN <<<<"#", " ">> \o central_title[1]>> ELSE <<>>)
            \o SectionLines(SortTopicsByPosition(tops))} })

-----------------------------------------------------------------------------
(* extract_markdown_lines *)

Raised(exc, failure) == [kind |-> "raised", exc |-> exc, failure |-> failure]

Returned(value) == [kind |-> "returned", value |-> value]

\* os.path.splitext(file_path)[1].lower()
Lower(ext) ==
    CASE ext = ".MMAP"  -> ".mmap"
      [] ext = ".XMmap" -> ".xmmap"
      [] OTHER -> ext

\* lines 389-391: the first Topic under a OneTopic, else the first Topic anywhere
CentralTopic(root) == IF root.OneTopic # None THEN root.OneTopic ELSE root.Topic

\* mutant: the board strategy is tried before the table strategy
ConvertTreeBoardFirst(central_topic) ==
    The({ The({ IF md_lines = <<>>
                THEN Raised("MindmapConversionError", "EmptyDocument")
                ELSE Returned(md_lines)
              : md_lines \in {
                  IF LooksLikeBoardLayout(top_level_topics)
                  THEN RenderBoardSections(central_title, top_level_topics)
                  ELSE IF Truthy(canvas_lines) THEN canvas_lines[1]
                  ELSE WalkTopic(central_topic, 1)} })
        : top_level_topics \in {IterChildTopics(central_topic)},
          central_title \in {GetTopicText(central_topic)},
          canvas_lines \in {RenderCanvasTable(GetTopicText(central_topic),
                                              IterChildTopics(central_topic))} })

\* lines 396-412
ConvertTree(central_topic) ==
    The({ The({ IF md_lines = <<>>
                THEN Raised("MindmapConversionError", "EmptyDocument")
                ELSE Returned(md_lines)
              : md_lines \in {
                  IF Truthy(canvas_lines) THEN canvas_lines[1]
                  ELSE IF LooksLikeBoardLayout(top_level_topics)
                       THEN RenderBoardSections(central_title, top_level_topics)
                  ELSE WalkTopic(central_topic, 1)} })
        : top_level_topics \in {IterChildTopics(central_topic)},
          central_title \in {GetTopicText(central_topic)},
          canvas_lines \in {RenderCanvasTable(GetTopicText(central_topic),
                                              IterChildTopics(central_topic))} })

\* lines 387-394
ConvertRoot(root) ==
    The({ IF central_topic = None
          THEN Raised("MindmapConversionError", "NoTopicsFound")
          ELSE ConvertTree(central_topic[1])
        : central_topic \in {CentralTopic(root)} })

ExtractMarkdownLines(f) ==
    IF ~f.exists THEN Raised("MindmapConversionError", "FileNotFound")
    ELSE LET ext == Lower(f.ext)
         IN  IF ext = ".mmap"
             THEN IF ~f.is_zip THEN Raised("BadZipFile", "NotAZipFile")
                  ELSE IF ~f.has_document_xml
                       THEN Raised("MindmapConversionError", "MissingDocumentEntry")
                  ELSE IF ~f.well_formed
                       THEN Raised("MindmapConversionError", "MalformedDocument")
                  ELSE ConvertRoot(f.root)
             ELSE IF ext = ".xmmap"
             THEN IF ~f.well_formed
                  THEN Raised("MindmapConversionError", "MalformedDocument")
                  ELSE ConvertRoot(f.root)
             ELSE Raised("MindmapConversionError", "UnsupportedFormat")

-----------------------------------------------------------------------------
(* Input documents of extract_markdown_lines *)

PlainTextNode(s) ==
    Some([PlainText |-> Some(s), PlainTextElem |-> None, Paragraph |-> <<>>, text |-> None])

\* a Text element whose only content is whitespace, in each of three encodings
BlankTextNodes ==
    {Some([PlainText |-> Some(<<" ">>), PlainTextElem |-> None,
           Paragraph |-> <<>>, text |-> None]),
     Some([PlainText |-> None, PlainTextElem |-> Some(<<" ", " ">>),
           Paragraph |-> <<>>, text |-> None]),
     Some([PlainText |-> None, PlainTextElem |-> None,
           Paragraph |-> <<[inner |-> <<Some(<<" ">>)>>, text |-> Some(<<"\n">>)]>>,
           text |-> Some(<<"\n", " ">>)])}

OffsetAt(x, y) == Some([CX |-> Some(NumLit(x)), CY |-> Some(NumLit(y))])

MakeTopic(text, offset, sub) ==
    [NoTopic EXCEPT !.Text = text, !.Offset = offset, !.SubTopics = sub]

Leaf(s) == MakeTopic(PlainTextNode(s), None, <<>>)

(* The layout family: a central topic and up to MaxTopics direct children. *)
(* Child i is named ChildNames[i], sits at GridPoints[i] or has no Offset, *)
(* and has one named child or none; or it is unnamed, bare or with both.   *)
MaxTopics == 4

ChildNames == <<"A", "B", "C", "A", "D", "E">>

GridPoints == <<<<0, 0>>, <<110, 10>>, <<0, 100>>, <<100, 100>>, <<200, 0>>, <<20, 110>>>>

ChildChoices(i) ==
    {MakeTopic(PlainTextNode(<<ChildNames[i]>>), offset, sub) :
        offset \in {None, OffsetAt(GridPoints[i][1], GridPoints[i][2])},
        sub \in {<<>>, <<Leaf(<<"x", Digit(i)>>)>>}}
    \cup
    {MakeTopic(None, None, <<>>),
     MakeTopic(None, OffsetAt(GridPoints[i][1], GridPoints[i][2]), <<Leaf(<<"x", Digit(i)>>)>>)}

RECURSIVE LayoutChildren(_)
LayoutChildren(n) ==
    IF n = 0 THEN {<<>>}
    ELSE {Append(s, c) : s \in LayoutChildren(n - 1), c \in ChildChoices(n)}

LayoutDocs ==
    {MakeTopic(text, None, sub) :
        text \in {None, PlainTextNode(<<"P">>)},
        sub \in UNION {LayoutChildren(n) : n \in 0..MaxTopics}}

(* The example of the specification: "Plan" with the children "A" (child   *)
(* "a1") and "B" (child "b1"), both positioned, at every pair of offsets.  *)
PlanCoords == {NumLit(0), NumLit(20), NumLit(100), WordLit("inf")}

PlanOffsets == {Some([CX |-> Some(x), CY |-> Some(y)]) : x \in PlanCoords, y \in PlanCoords}

PlanDocs ==
    {MakeTopic(PlainTextNode(<<"P", "l", "a", "n">>), None,
         <<MakeTopic(PlainTextNode(<<"A">>), pa, <<Leaf(<<"a", "1">>)>>),
           MakeTopic(PlainTextNode(<<"B">>), pb, <<Leaf(<<"b", "1">>)>>)>>) :
        pa \in PlanOffsets, pb \in PlanOffsets}

(* The outline family: no Offset anywhere, three levels, all four          *)
(* containers, named and unnamed topics.                                   *)
OptLeaf(s) == {<<>>, <<Leaf(s)>>}

MidTopics ==
    {[NoTopic EXCEPT !.Text = text, !.SubTopics = sub, !.FloatingTopics = floating] :
        text \in {None, PlainTextNode(<<"m">>)},
        sub \in OptLeaf(<<"s">>) \cup {<<MakeTopic(None, None, <<Leaf(<<"t">>)>>)>>},
        floating \in OptLeaf(<<"f">>)}

OutlineDocs ==
    {[Text |-> text, Offset |-> None, SubTopics |-> sub, LeftTopicGroup |-> left,
      RightTopicGroup |-> right, FloatingTopics |-> floating] :
        text \in {None, PlainTextNode(<<"P">>), PlainTextNode(<<" ">>)},
        sub \in SeqsUpTo(MidTopics, 2),
        left \in OptLeaf(<<"L">>), right \in OptLeaf(<<"R">>),
        floating \in OptLeaf(<<"F">>)}

(* The blank family: no topic has text; Offsets and children vary.         *)
BlankChildren ==
    {MakeTopic(text, offset, sub) :
        text \in {None} \cup BlankTextNodes,
        offset \in {None, OffsetAt(0, 0), OffsetAt(100, 100)},
        sub \in {<<>>, <<MakeTopic(None, None, <<>>)>>}}

BlankDocs ==
    {MakeTopic(text, None, sub) :
        text \in {None} \cup BlankTextNodes, sub \in SeqsUpTo(BlankChildren, 2)}

Documents == LayoutDocs \cup PlanDocs \cup OutlineDocs \cup BlankDocs

\* A parsed tree by the two things the facade asks of it.
RootOf(central) == [OneTopic |-> Some(central), Topic |-> Some(central)]

SmallRoots ==
    {[OneTopic |-> None, Topic |-> None],
     [OneTopic |-> None, Topic |-> Some(Leaf(<<"T">>))],
     [OneTopic |-> None, Topic |-> Some(MakeTopic(None, None, <<>>))],
     [OneTopic |-> Some(Leaf(<<"O">>)), Topic |-> Some(Leaf(<<"O">>))]}

Files ==
    [exists : BOOLEAN, ext : {".mmap", ".MMAP", ".xmmap", ".txt", ""},
     is_zip : BOOLEAN, has_document_xml : BOOLEAN, well_formed : BOOLEAN,
     root : SmallRoots]
    \cup
    {[exists |-> TRUE, ext |-> ".xmmap", is_zip |-> FALSE, has_document_xml |-> FALSE,
      well_formed |-> TRUE, root |-> RootOf(d)] : d \in Documents}

Init ==
    /\ pc = "start"
    /\ file \in Files
    /\ result = NoResult
    /\ topic = NoTopic
    /\ topics = <<>>
    /\ values = <<>>

CallExtractMarkdownLines ==
    /\ pc = "start"
    /\ result' = ExtractMarkdownLines(file)
    /\ pc' = "done"
    /\ UNCHANGED <<file, topic, topics, values>>

Next == CallExtractMarkdownLines

Spec == Init /\ [][Next]_vars

-----------------------------------------------------------------------------
(* Vocabulary of the properties *)

\* The file gets as far as a central topic.
HasCentralTopic(f) ==
    /\ f.exists
    /\ \/ Lower(f.ext) = ".mmap" /\ f.is_zip /\ f.has_document_xml
       \/ Lower(f.ext) = ".xmmap"
    /\ f.well_formed
    /\ CentralTopic(f.root) # None

Central(f) == CentralTopic(f.root)[1]

\* Canonical child order: SubTopics, LeftTopicGroup, RightTopicGroup, FloatingTopics.
CanonicalChildren(t) ==
    t.SubTopics \o t.LeftTopicGroup \o t.RightTopicGroup \o t.FloatingTopics

\* The topics of a tree, each named by its path of child positions from the root.
RECURSIVE PathsOf(_)
PathsOf(t) ==
    {<<>>} \cup UNION {{<<i>> \o q : q \in PathsOf(CanonicalChildren(t)[i])} :
                          i \in 1..Len(CanonicalChildren(t))}

RECURSIVE TopicAt(_, _)
TopicAt(t, path) ==
    IF path = <<>> THEN t ELSE TopicAt(CanonicalChildren(t)[Head(path)], Tail(path))

\* Depth-first pre-order is the lexicographic order of paths, a prefix first.
RECURSIVE PathBefore(_, _)
PathBefore(a, b) ==
    IF a = <<>> THEN b # <<>>
    ELSE IF b = <<>> THEN FALSE
    ELSE Head(a) < Head(b) \/ (Head(a) = Head(b) /\ PathBefore(Tail(a), Tail(b)))

TextedPaths(t) == {q \in PathsOf(t) : Truthy(GetTopicText(TopicAt(t, q)))}

NoPositions(t) == \A q \in PathsOf(t) : GetTopicPosition(TopicAt(t, q)) = None

-----------------------------------------------------------------------------
(* C1: the renderer is picked in strict priority order.  Whenever the      *)
(* table renderer returns a result for the central topic's children, the   *)
(* returned lines are exactly that result, also when the board test holds  *)
(* of the same children; the board lines are the outcome only when the     *)
(* table renderer returned nothing and the board test holds; the outline   *)
(* lines only when the table renderer returned nothing and the board test  *)
(* fails.                                                                  *)
C1_PriorityOrder ==
    (pc = "done" /\ HasCentralTopic(file)) =>
        LET title == GetTopicText(Central(file))
            tops  == CanonicalChildren(Central(file))
            table == RenderCanvasTable(title, tops)
            board == LooksLikeBoardLayout(tops)
            chosen == IF table # None THEN table[1]
                      ELSE IF board THEN RenderBoardSections(title, tops)
                      ELSE WalkTopic(Central(file), 1)
        IN  /\ table # None => result = Returned(table[1])
            /\ result.kind = "returned" => result.value = chosen
            /\ result.kind = "raised" => chosen = <<>>

\* a document both the table and the board strategy accept was converted
C1_Witness ==
    /\ pc = "done"
    /\ HasCentralTopic(file)
    /\ LooksLikeBoardLayout(CanonicalChildren(Central(file)))
    /\ RenderCanvasTable(GetTopicText(Central(file)), CanonicalChildren(Central(file))) # None
    /\ result.kind = "returned"
    /\ result.value # RenderBoardSections(GetTopicText(Central(file)),
                                          CanonicalChildren(Central(file)))

-----------------------------------------------------------------------------
(* C2: every call ends by returning a non-empty sequence of lines or by    *)
(* raising MindmapConversionError for one of the six failures of the       *)
(* taxonomy; nothing else escapes.                                         *)
TaxonomyFailures ==
    {"FileNotFound", "UnsupportedFormat", "MissingDocumentEntry",
     "MalformedDocument", "NoTopicsFound", "EmptyDocument"}

C2_SingleErrorSurface ==
    pc = "done" =>
        \/ result.kind = "returned" /\ result.value # <<>>
        \/ /\ result.kind = "raised"
           /\ result.exc = "MindmapConversionError"
           /\ result.failure \in TaxonomyFailures

-----------------------------------------------------------------------------
(* C3: for a tree without positions and with N topics of non-empty text,   *)
(* the conversion yields exactly N lines, one per such topic: '#' times    *)
(* the topic's depth (the central topic has depth 1), a space, the text;   *)
(* in depth-first pre-order over the canonical child order.  (N = 0 is     *)
(* the EmptyDocument failure: no lines.)                                   *)
HeadingLine(t, path) ==
    [i \in 1..(Len(path) + 1) |-> "#"] \o <<" ">> \o GetTopicText(TopicAt(t, path))[1]

C3_OutlineHeadings ==
    (pc = "done" /\ HasCentralTopic(file) /\ NoPositions(Central(file))) =>
        LET t == Central(file)
            texted == TextedPaths(t)
            rank(q) == Cardinality({r \in texted : PathBefore(r, q)}) + 1
        IN  IF texted = {}
            THEN result = Raised("MindmapConversionError", "EmptyDocument")
            ELSE /\ result.kind = "returned"
                 /\ Len(result.value) = Cardinality(texted)
                 /\ \A q \in texted : result.value[rank(q)] = HeadingLine(t, q)

\* three levels, three containers in use, an unnamed topic with a named child
C3_Witness ==
    /\ pc = "done"
    /\ HasCentralTopic(file)
    /\ NoPositions(Central(file))
    /\ result.kind = "returned"
    /\ Len(result.value) >= 5
    /\ Central(file).SubTopics # <<>>
    /\ Central(file).LeftTopicGroup # <<>>
    /\ Central(file).FloatingTopics # <<>>
    /\ \E q \in TextedPaths(Central(file)) :
           /\ Len(q) = 3
           /\ ~Truthy(GetTopicText(TopicAt(Central(file), SubSeq(q, 1, 2))))

-----------------------------------------------------------------------------
(* C4: "Plan" with exactly the children "A" (one child "a1") and "B" (one  *)
(* child "b1"), both positioned: whenever the table strategy does not      *)
(* apply, the outline renderer's lines are returned.                       *)
IsNamedLeaf(t, name) ==
    GetTopicText(t) = Some(name) /\ CanonicalChildren(t) = <<>>

IsPlanExample(t) ==
    /\ GetTopicText(t) = Some(<<"P", "l", "a", "n">>)
    /\ Len(CanonicalChildren(t)) = 2
    /\ LET a == CanonicalChildren(t)[1]
           b == CanonicalChildren(t)[2]
       IN  /\ GetTopicText(a) = Some(<<"A">>)
           /\ GetTopicText(b) = Some(<<"B">>)
           /\ GetTopicPosition(a) # None
           /\ GetTopicPosition(b) # None
           /\ Len(CanonicalChildren(a)) = 1
           /\ Len(CanonicalChildren(b)) = 1
           /\ IsNamedLeaf(CanonicalChildren(a)[1], <<"a", "1">>)
           /\ IsNamedLeaf(CanonicalChildren(b)[1], <<"b", "1">>)

PlanFallsThrough ==
    /\ pc = "done"
    /\ HasCentralTopic(file)
    /\ IsPlanExample(Central(file))
    /\ RenderCanvasTable(GetTopicText(Central(file)), CanonicalChildren(Central(file))) = None

\* C4 as stated: the children's children come out as bullet lines
C4_PlanBullets ==
    PlanFallsThrough =>
        result = Returned(<<<<"#", " ", "P", "l", "a", "n">>,
                            <<"#", "#", " ", "A">>, <<"-", " ", "a", "1">>,
                            <<"#", "#", " ", "B">>, <<"-", " ", "b", "1">>>>)

\* C4 as amended: the children's children come out as level-3 headings
C4_PlanHeadings ==
    PlanFallsThrough =>
        result = Returned(<<<<"#", " ", "P", "l", "a", "n">>,
                            <<"#", "#", " ", "A">>, <<"#", "#", "#", " ", "a", "1">>,
                            <<"#", "#", " ", "B">>, <<"#", "#", "#", " ", "b", "1">>>>)

\* the example with A and B in one row, so that the table does not apply
C4_Witness ==
    /\ PlanFallsThrough
    /\ result.kind = "returned"
    /\ GetTopicPosition(CanonicalChildren(Central(file))[1])[1][1]
         # GetTopicPosition(CanonicalChildren(Central(file))[2])[1][1]

-----------------------------------------------------------------------------
(* C5: a tree with topics of which none has non-empty text (whitespace     *)
(* counts as empty) fails with EmptyDocument, whatever the positions and   *)
(* the children.                                                           *)
C5_EmptyDocument ==
    (pc = "done" /\ HasCentralTopic(file) /\ TextedPaths(Central(file)) = {}) =>
        result = Raised("MindmapConversionError", "EmptyDocument")

\* whitespace-only text, positioned children spread over two rows and columns
C5_Witness ==
    /\ pc = "done"
    /\ HasCentralTopic(file)
    /\ TextedPaths(Central(file)) = {}
    /\ \E q \in PathsOf(Central(file)) : GetTopicText(TopicAt(Central(file), q)) = Some(<<>>)
    /\ \E i, j \in 1..Len(CanonicalChildren(Central(file))) :
           LET a == GetTopicPosition(CanonicalChildren(Central(file))[i])
               b == GetTopicPosition(CanonicalChildren(Central(file))[j])
           IN  a # None /\ b # None /\ a[1][1] # b[1][1] /\ a[1][2] # b[1][2]
    /\ result.kind = "raised"

-----------------------------------------------------------------------------
(* Inputs of looks_like_board_layout: up to MaxBoardTopics children, child *)
(* i one of ChildChoices(i) or a bare topic with the name of child 1.      *)

MaxBoardTopics == 5

BoardChoices(i) == ChildChoices(i) \cup {Leaf(<<ChildNames[1]>>)}

RECURSIVE BoardChildren(_)
BoardChildren(n) ==
    IF n = 0 THEN {<<>>}
    ELSE {Append(s, c) : s \in BoardChildren(n - 1), c \in BoardChoices(n)}

InitBoard ==
    /\ pc = "start"
    /\ topics \in UNION {BoardChildren(n) : n \in 0..MaxBoardTopics}
    /\ result = NoResult
    /\ file = NoFile
    /\ topic = NoTopic
    /\ values = <<>>

CallLooksLikeBoardLayout ==
    /\ pc = "start"
    /\ result' = [kind |-> "returned", value |-> LooksLikeBoardLayout(topics)]
    /\ pc' = "done"
    /\ UNCHANGED <<file, topic, topics, values>>

SpecBoard == InitBoard /\ [][CallLooksLikeBoardLayout]_vars

-----------------------------------------------------------------------------
(* C6: two values more than the tolerance apart never share a cluster.     *)

\* |a - b| > Tolerance in float arithmetic (inf - inf is NaN: not greater)
FarApart(a, b) ==
    IF a.kind = "fin" /\ b.kind = "fin"
    THEN a.num - b.num > Tolerance \/ b.num - a.num > Tolerance
    ELSE a.kind # b.kind

\* C6 as stated: any two values more than 25 apart get different cluster ids
C6_FarApartNeverMerge ==
    (pc = "done" /\ values # <<>>) =>
        \A i, j \in 1..Len(values) :
            FarApart(values[i], values[j]) =>
                result.value[1].mapping[i] # result.value[1].mapping[j]

\* a and b are neighbours in sorted order: a < b and no value lies between
Neighbours(a, b) ==
    /\ FLess(a, b)
    /\ ~\E k \in 1..Len(values) : FLess(a, values[k]) /\ FLess(values[k], b)

\* C6 as amended: values i and j get different cluster ids whenever, in
\* sorted order, two neighbouring values from values[i] up to values[j] are
\* more than 25 apart (in particular when i and j are such neighbours).
C6_GapNeverMerges ==
    (pc = "done" /\ values # <<>>) =>
        \A i, j \in 1..Len(values) :
            (\E k, l \in 1..Len(values) :
                /\ ~FLess(values[k], values[i])
                /\ ~FLess(values[j], values[l])
                /\ Neighbours(values[k], values[l])
                /\ FarApart(values[k], values[l]))
            => result.value[1].mapping[i] # result.value[1].mapping[j]

\* unsorted input with a gap of more than 25 after a two-member cluster
C6_Witness ==
    /\ pc = "done"
    /\ Len(values) = 3
    /\ FLess(values[3], values[1])
    /\ \E i, j \in 1..3 :
           /\ Neighbours(values[i], values[j])
           /\ FarApart(values[i], values[j])
           /\ values[j].kind = "fin"
           /\ result.value[1].mapping[i] # result.value[1].mapping[j]
    /\ \E i, j \in 1..3 :
           i # j /\ result.value[1].mapping[i] = result.value[1].mapping[j]

-----------------------------------------------------------------------------
(* C7: the result does not depend on the order of the input.  For every    *)
(* permutation of the values the centers are the same list and each value  *)
(* keeps its cluster id; equal values share a cluster; values that all lie *)
(* within 25 of one another form a single cluster.                         *)
C7_OrderInsensitive ==
    (pc = "done" /\ values # <<>>) =>
        LET n == Len(values)
            clustered == result.value[1]
        IN  /\ \A perm \in Permutations(1..n) :
                   LET shuffled == ClusterIndices([i \in 1..n |-> values[perm[i]]],
                                                  Tolerance)[1]
                   IN  /\ shuffled.centers = clustered.centers
                       /\ \A i \in 1..n : shuffled.mapping[i] = clustered.mapping[perm[i]]
            /\ \A i, j \in 1..n :
                   values[i] = values[j] => clustered.mapping[i] = clustered.mapping[j]
            /\ (\A i, j \in 1..n : ~FarApart(values[i], values[j]))
                   => Len(clustered.centers) = 1

\* three values out of order, two of them equal, in two clusters
C7_Witness ==
    /\ pc = "done"
    /\ Len(values) = 3
    /\ FLess(values[2], values[1])
    /\ values[1] = values[3]
    /\ Len(result.value[1].centers) = 2

-----------------------------------------------------------------------------
(* C8: looks_like_board_layout returns true only if at least half of the   *)
(* n children have a position (2p >= n) and at least half have a child     *)
(* with text (2c >= n), besides n >= 4, every child named, and at least    *)
(* max(3, n - 1) distinct names.                                           *)
C8_AtLeastHalf ==
    (pc = "done" /\ result.value) =>
        LET n == Len(topics)
            p == Cardinality({i \in 1..n : GetTopicPosition(topics[i]) # None})
            c == Cardinality({i \in 1..n : GatherImmediateChildText(topics[i]) # <<>>})
            distinct == Cardinality({GetTopicText(topics[i]) : i \in 1..n})
        IN  /\ n >= 4
            /\ \A i \in 1..n : Truthy(GetTopicText(topics[i]))
            /\ distinct >= Max(3, n - 1)
            /\ 2 * p >= n
            /\ 2 * c >= n

-----------------------------------------------------------------------------
(* C9: get_topic_text returns the trimmed content of the first of the four *)
(* steps (PlainText attribute, PlainText element, Paragraph fragments, the *)
(* Text element's own text) whose content is non-empty after trimming; a   *)
(* whitespace-only step never stops the chain; the result is absent only   *)
(* when all four steps produce nothing.                                    *)
TrimmedOrEmpty(opt) == IF opt = None THEN <<>> ELSE Strip(opt[1])

ChainSteps(text_node) ==
    <<TrimmedOrEmpty(text_node.PlainText),
      TrimmedOrEmpty(text_node.PlainTextElem),
      Join(<<"\n">>, ParagraphTexts(text_node.Paragraph)),
      TrimmedOrEmpty(text_node.text)>>

C9_FallbackChain ==
    (pc = "done" /\ topic.Text # None) =>
        LET steps == ChainSteps(topic.Text[1])
            producers == {k \in 1..4 : steps[k] # <<>>}
        IN  IF producers = {}
            THEN ~Truthy(result.value)
            ELSE result.value =
                     Some(steps[CHOOSE k \in producers : \A m \in producers : k <= m])

-----------------------------------------------------------------------------
(* C10: get_topic_position returns a pair exactly when the Offset element  *)
(* is present and both CX and CY are finite numbers; a missing,            *)
(* non-numeric or non-finite (NaN, +inf, -inf) coordinate yields None.     *)
IsFiniteLiteral(opt) == opt # None /\ opt[1].lit = "num"

C10_FiniteOrNone ==
    pc = "done" =>
        /\ result.kind = "returned"
        /\ result.value # None <=>
               /\ topic.Offset # None
               /\ IsFiniteLiteral(topic.Offset[1].CX)
               /\ IsFiniteLiteral(topic.Offset[1].CY)

-----------------------------------------------------------------------------
(* Inputs of render_canvas_table.                                          *)
(* The grid family: up to MaxTableTopics named topics on the corners of a  *)
(* 2 x 2 grid, topic i on one of two corners, with 0, 1 or 3 named         *)
(* children; topic 1 may carry two Paragraphs, topic 2 a "|" in its name.  *)
(* The wide family: WideColumns columns, the bottom row full, the top row  *)
(* occupied in any subset of the columns.                                  *)

MaxTableTopics == 4

WideColumns == 6

TablePoints == <<<<0, 0>>, <<100, 0>>, <<0, 100>>, <<100, 100>>>>

TwoParagraphs(a, b) ==
    Some([PlainText |-> None, PlainTextElem |-> None,
          Paragraph |-> <<[inner |-> <<>>, text |-> Some(a)],
                          [inner |-> <<>>, text |-> Some(b)]>>,
          text |-> None])

Kids(k) == [j \in 1..k |-> Leaf(<<"k", Digit(j)>>)]

TableTexts(i) ==
    {PlainTextNode(<<ChildNames[i]>>)}
    \cup (IF i = 1 THEN {TwoParagraphs(<<"A">>, <<"a">>)} ELSE {})
    \cup (IF i = 2 THEN {PlainTextNode(<<"B", "|">>)} ELSE {})

TableChoices(i) ==
    {MakeTopic(text, OffsetAt(TablePoints[at][1], TablePoints[at][2]), Kids(k)) :
        text \in TableTexts(i),
        at \in {((i - 1) % 4) + 1, (i % 4) + 1},
        k \in IF i <= 2 THEN {0, 1, 3} ELSE {0, 1}}

RECURSIVE TableChildren(_)
TableChildren(n) ==
    IF n = 0 THEN {<<>>}
    ELSE {Append(s, c) : s \in TableChildren(n - 1), c \in TableChoices(n)}

WideTopic(letter, col, y) ==
    MakeTopic(PlainTextNode(<<letter, Digit(col)>>), OffsetAt((col - 1) * 100, y), <<>>)

WideTables ==
    {LET top == SelectSeq(Range(WideColumns), LAMBDA c : occupied[c])
     IN  [k \in 1..Len(top) |-> WideTopic("t", top[k], 0)]
         \o [c \in 1..WideColumns |-> WideTopic("b", c, 100)] :
        occupied \in [1..WideColumns -> BOOLEAN]}

InitTable ==
    /\ pc = "start"
    /\ topic \in {MakeTopic(None, None, <<>>), Leaf(<<"P">>)}
    /\ topics \in UNION {TableChildren(n) : n \in 0..MaxTableTopics} \cup WideTables
    /\ result = NoResult
    /\ file = NoFile
    /\ values = <<>>

\* render_canvas_table(get_topic_text(central_topic), top_level_topics)
CallRenderCanvasTable ==
    /\ pc = "start"
    /\ result' = [kind |-> "returned",
                  value |-> RenderCanvasTable(GetTopicText(topic), topics)]
    /\ pc' = "done"
    /\ UNCHANGED <<file, topic, topics, values>>

SpecTable == InitTable /\ [][CallRenderCanvasTable]_vars

-----------------------------------------------------------------------------
(* Vocabulary of the table properties, over the call's inputs and result.  *)

\* the call returned a table
TableReturned == pc = "done" /\ result.kind = "returned" /\ result.value # None

\* the returned lines after the optional "# title" line
TableBlock ==
    IF Truthy(GetTopicText(topic)) THEN Tail(result.value[1]) ELSE result.value[1]

\* the row whose cluster center is the lowest
TopRow(centers) ==
    CHOOSE r \in 1..Len(centers) :
        \A q \in (1..Len(centers)) \ {r} : CenterLess(centers[r], centers[q])

\* What the header-row decision is about, from the call's topic list: the
\* number of row and column clusters, h (the cells of the top row with at
\* least one headed entry) and the immediate child texts over the top row.
TableFacts(tops) ==
    The({ The({ The({
        [rows     |-> Len(row_clusters.centers),
         columns  |-> Len(col_clusters.centers),
         headed   |-> Cardinality({col_clusters.mapping[i] :
                          i \in {j \in in_top_row : Truthy(GetTopicText(placed[j]))}}),
         children |-> SumSeq([i \in 1..Len(placed) |->
                          IF i \in in_top_row
                          THEN Len(GatherImmediateChildText(placed[i])) ELSE 0])]
        : in_top_row \in {{i \in 1..Len(placed) :
                              row_clusters.mapping[i] = TopRow(row_clusters.centers)}} })
        : row_clusters \in {ClusterIndices(
              [i \in 1..Len(placed) |-> GetTopicPosition(placed[i])[1][2]], Tolerance)[1]},
          col_clusters \in {ClusterIndices(
              [i \in 1..Len(placed) |-> GetTopicPosition(placed[i])[1][1]], Tolerance)[1]} })
        : placed \in {ValidTopics(tops)} })

HeaderRowExpected(facts) ==
    /\ facts.headed >= Max(2, facts.columns \div 2)
    /\ facts.children <= 2 * facts.headed

SyntheticLabels(k) == [j \in 1..k |-> ColumnLabel(j)]

\* the header lines made of "Column N" labels only, without and with the
\* blank cell that precedes them when the first column holds the row labels
SyntheticHeaders(columns) ==
    {PipeRow(SyntheticLabels(columns)),
     PipeRow(<<<<" ">>>> \o SyntheticLabels(columns - 1))}

-----------------------------------------------------------------------------
(* C11: the header-row flag is decided for the row with the lowest cluster *)
(* center only, and it is true exactly when h >= max(2, numColumns div 2)  *)
(* and the row's child texts number at most 2*h, h being the cells of that *)
(* row with a headed entry.  Seen in the result: when both hold, exactly   *)
(* one row (the header row) is left out of the body and the header line    *)
(* carries headings; when either fails, every row is a body row and all    *)
(* column labels are "Column N".                                           *)
C11_HeaderRowFlag ==
    TableReturned =>
        \A facts \in {TableFacts(topics)}, block \in {TableBlock} :
            /\ Len(block) - 2
                   = facts.rows - (IF HeaderRowExpected(facts) THEN 1 ELSE 0)
            /\ HeaderRowExpected(facts)
                   <=> block[1] \notin SyntheticHeaders(facts.columns)

\* the boundary: two headed cells in the top row and exactly four child texts
C11_Witness ==
    /\ TableReturned
    /\ \E facts \in {TableFacts(topics)} :
           /\ facts.columns = 2
           /\ facts.headed = 2
           /\ facts.children = 4
           /\ Len(TableBlock) - 2 = facts.rows - 1

-----------------------------------------------------------------------------
(* C12: a returned table is well-formed: a header line, a separator line   *)
(* and at least one body line, every line with the same number of cell     *)
(* delimiters and none with a raw line break, whatever text the topics     *)
(* carry.                                                                  *)
CountOf(c, line) == Cardinality({k \in 1..Len(line) : line[k] = c})

C12_WellFormedTable ==
    TableReturned =>
        \A block \in {TableBlock} :
            /\ Len(block) >= 3
            /\ \A k \in 1..Len(block) :
                   /\ CountOf("\n", block[k]) = 0
                   /\ CountOf("|", block[k]) = CountOf("|", block[1])

=============================================================================
